---- MODULE Spec2Model ----
(***************************************************************************)
(* A model of build-deps-csv.py: the dependency scanner (DependencyScanner *)
(* with its per-format parsers), write_csv and main.                       *)
(*                                                                         *)
(* Text is a sequence of one-character strings, so that the regular        *)
(* expressions and the str methods of the source are computed character by *)
(* character, as the source computes them.                                 *)
(***************************************************************************)
EXTENDS Integers, Sequences, FiniteSets, TLC

VARIABLES
    pc,            \* position of main(): "main", "walk", "files", "write", "exit"
    argv,          \* sys.argv
    root_is_dir,   \* os.path.isdir(root_dir)
    tree,          \* the directory tree under the root, a sequence of entries
    stack,         \* os.walk: directories still to be visited, next one first
    cur,           \* os.walk: the directory being visited (0 is the root), -1 before
    files,         \* the files of cur not yet looked at, in enumeration order
    dependencies,  \* scanner.dependencies
    attempts,      \* history: one entry per call of _parse_dependency_file
    stderr,        \* the diagnostics printed so far
    stdout,        \* what was printed to standard output
    out_file,      \* the files at the output paths: "absent", "old" or the rows written
    exit_code,     \* the process exit status, -1 while running
    filename,      \* single-file parse: the manifest's basename
    content,       \* single-file parse: the manifest's text
    parsed         \* single-file parse: number of files parsed so far

vars == <<pc, argv, root_is_dir, tree, stack, cur, files, dependencies, attempts,
          stderr, stdout, out_file, exit_code, filename, content, parsed>>

----------------------------------------------------------------------------
(* Characters and the str methods the source uses.                         *)

QUOTE == "\""
APOS == "'"
NL == "\n"

\* what str.strip() removes and what \s matches
Whitespace == {" ", "\t", "\n", "\r", "\f"}

\* the character class [a-zA-Z0-9\-_]
NameChars ==
    {"a","b","c","d","e","f","g","h","i","j","k","l","m","n","o","p","q","r",
     "s","t","u","v","w","x","y","z",
     "A","B","C","D","E","F","G","H","I","J","K","L","M","N","O","P","Q","R",
     "S","T","U","V","W","X","Y","Z",
     "0","1","2","3","4","5","6","7","8","9","-","_"}

\* the character class [>=<~!]
OperatorChars == {">", "=", "<", "~", "!"}

\* the character class ['"]
QuoteChars == {APOS, QUOTE}

\* s[i..] from position i to the end
From(s, i) == SubSeq(s, i, Len(s))

\* s.startswith(p) at offset i (1-based): p occurs in s at position i
OccursAt(s, p, i) ==
    /\ i >= 1
    /\ i + Len(p) - 1 <= Len(s)
    /\ SubSeq(s, i, i + Len(p) - 1) = p

StartsWith(s, p) == OccursAt(s, p, 1)

\* p in s
Contains(s, p) == \E i \in 1..(Len(s) + 1) : OccursAt(s, p, i)

\* c in s, for one character
HasChar(s, c) == \E i \in 1..Len(s) : s[i] = c

\* the first position >= i whose character is in set cs, Len(s)+1 when none
RECURSIVE FindIn(_, _, _)
FindIn(s, cs, i) ==
    IF i > Len(s) THEN Len(s) + 1
    ELSE IF s[i] \in cs THEN i
    ELSE FindIn(s, cs, i + 1)

\* the first position >= i whose character is not in set cs, Len(s)+1 when none
RECURSIVE SkipIn(_, _, _)
SkipIn(s, cs, i) ==
    IF i > Len(s) THEN Len(s) + 1
    ELSE IF s[i] \notin cs THEN i
    ELSE SkipIn(s, cs, i + 1)

\* the last position <= i whose character is not in set cs, 0 when none
RECURSIVE SkipBack(_, _, _)
SkipBack(s, cs, i) ==
    IF i < 1 THEN 0
    ELSE IF s[i] \notin cs THEN i
    ELSE SkipBack(s, cs, i - 1)

\* s.strip(chars)
StripChars(s, cs) == SubSeq(s, SkipIn(s, cs, 1), SkipBack(s, cs, Len(s)))

\* s.strip()
Strip(s) == StripChars(s, Whitespace)

\* s.split(sep) for a one-character separator
RECURSIVE Split(_, _)
Split(s, sep) ==
    LET Cut(j) ==
            IF j > Len(s) THEN <<s>>
            ELSE <<SubSeq(s, 1, j - 1)>> \o Split(From(s, j + 1), sep)
    IN  Cut(FindIn(s, {sep}, 1))

\* s.split(sep, 1)
Split1(s, sep) ==
    LET Cut(j) ==
            IF j > Len(s) THEN <<s>>
            ELSE <<SubSeq(s, 1, j - 1), From(s, j + 1)>>
    IN  Cut(FindIn(s, {sep}, 1))

\* sep.join(parts)
RECURSIVE Join(_, _)
Join(parts, sep) ==
    IF parts = <<>> THEN <<>>
    ELSE IF Len(parts) = 1 THEN parts[1]
    ELSE parts[1] \o <<sep>> \o Join(Tail(parts), sep)

----------------------------------------------------------------------------
(* The literals of the source.                                             *)

KEY_dependencies == <<"\"","d","e","p","e","n","d","e","n","c","i","e","s","\"">>
KEY_devDependencies == <<"\"","d","e","v","D","e","p","e","n","d","e","n","c","i","e","s","\"">>
KEY_require == <<"\"","r","e","q","u","i","r","e","\"">>
SEC_packages == <<"[","p","a","c","k","a","g","e","s","]">>
SEC_dependencies == <<"[","d","e","p","e","n","d","e","n","c","i","e","s","]">>
LIT_gem == <<"g","e","m">>
LIT_implementation == <<"i","m","p","l","e","m","e","n","t","a","t","i","o","n">>
TAG_artifactId == <<"<","a","r","t","i","f","a","c","t","I","d",">">>
END_artifactId == <<"<","/","a","r","t","i","f","a","c","t","I","d",">">>
TAG_groupId == <<"<","g","r","o","u","p","I","d",">">>
END_groupId == <<"<","/","g","r","o","u","p","I","d",">">>
TAG_version == <<"<","v","e","r","s","i","o","n",">">>
END_version == <<"<","/","v","e","r","s","i","o","n",">">>
LIT_unknown == <<"u","n","k","n","o","w","n">>
LIT_star == <<"*">>
LIT_slashes == <<"/","/">>

----------------------------------------------------------------------------
(* The pre-compiled regular expressions.  A match is a tuple of its groups *)
(* (followed, for the patterns used with finditer/findall, by the position *)
(* after the match); <<>> is "no match".  A group that did not take part   *)
(* in the match is <<>>, as is the empty string: the source only tests     *)
(* such groups with "or".  Positions found on the way are passed on as     *)
(* parameters of local operators.                                          *)

\* "([^"]+)":\s*"([^"]+)"  matched at position i
PACKAGE_JSON_PATTERN(s, i) ==
    LET Value(j, k) ==      \* j: the key's closing quote, k: after ":" and \s*
            LET Close(m) == \* m: the value's closing quote
                    IF m <= Len(s) /\ m >= k + 2
                    THEN <<SubSeq(s, i + 1, j - 1), SubSeq(s, k + 1, m - 1)>>
                    ELSE <<>>
            IN  IF k <= Len(s) /\ s[k] = QUOTE
                THEN Close(FindIn(s, {QUOTE}, k + 1))
                ELSE <<>>
        Key(j) ==
            IF /\ j <= Len(s) /\ j >= i + 2
               /\ j + 1 <= Len(s) /\ s[j + 1] = ":"
            THEN Value(j, SkipIn(s, Whitespace, j + 2))
            ELSE <<>>
    IN  IF i <= Len(s) /\ s[i] = QUOTE
        THEN Key(FindIn(s, {QUOTE}, i + 1))
        ELSE <<>>

\* PACKAGE_JSON_PATTERN.search(s): the leftmost match from position i on
RECURSIVE PackageJsonSearch(_, _)
PackageJsonSearch(s, i) ==
    LET Try(match) ==
            IF match # <<>> THEN match ELSE PackageJsonSearch(s, i + 1)
    IN  IF i > Len(s) THEN <<>> ELSE Try(PACKAGE_JSON_PATTERN(s, i))

\* ^([a-zA-Z0-9\-_]+)\s*([>=<~!]+.*)?$  as REQUIREMENTS_PATTERN.match(s)
REQUIREMENTS_PATTERN(s) ==
    LET Rest(j, k) ==       \* j: after the name, k: after \s*
            IF k > Len(s) THEN <<SubSeq(s, 1, j - 1), <<>>>>
            ELSE IF s[k] \in OperatorChars THEN <<SubSeq(s, 1, j - 1), From(s, k)>>
            ELSE <<>>
        Name(j) ==
            IF j = 1 THEN <<>> ELSE Rest(j, SkipIn(s, Whitespace, j))
    IN  Name(SkipIn(s, NameChars, 1))

\* ^\s*([^\s]+)\s+v?([^\s]+)  as GO_MOD_PATTERN.match(s)
GO_MOD_PATTERN(s) ==
    LET Second(a, b, c, d) ==   \* s[a..b-1] and s[c..d-1]: the two words
            IF s[c] = "v" /\ d - c >= 2
            THEN <<SubSeq(s, a, b - 1), SubSeq(s, c + 1, d - 1)>>
            ELSE <<SubSeq(s, a, b - 1), SubSeq(s, c, d - 1)>>
        Gap(a, b, c) ==
            IF c > Len(s) THEN <<>> ELSE Second(a, b, c, FindIn(s, Whitespace, c))
        First(a, b) ==
            IF b > Len(s) THEN <<>> ELSE Gap(a, b, SkipIn(s, Whitespace, b))
        Lead(a) ==
            IF a > Len(s) THEN <<>> ELSE First(a, FindIn(s, Whitespace, a))
    IN  Lead(SkipIn(s, Whitespace, 1))

\* ['"]([^'"]+)['"] with the opening quote at position b: <<group, position
\* after the closing quote>>
Quoted(s, b) ==
    LET Close(c) ==
            IF c <= Len(s) /\ c >= b + 2
            THEN <<SubSeq(s, b + 1, c - 1), c + 1>>
            ELSE <<>>
    IN  IF b >= 1 /\ b <= Len(s) /\ s[b] \in QuoteChars
        THEN Close(FindIn(s, QuoteChars, b + 1))
        ELSE <<>>

\* literal\s+['"]([^'"]+)['"]  matched at position i
KeywordQuoted(s, literal, i) ==
    LET Open(a, b) ==       \* a: after the literal, b: after \s+
            IF b > a THEN Quoted(s, b) ELSE <<>>
    IN  IF OccursAt(s, literal, i)
        THEN Open(i + Len(literal), SkipIn(s, Whitespace, i + Len(literal)))
        ELSE <<>>

\* gem\s+['"]([^'"]+)['"](?:,\s*['"]([^'"]+)['"])?  matched at position i
GEMFILE_PATTERN(s, i) ==
    LET Version(name, version) ==   \* the optional group, tried after the name
            IF version # <<>>
            THEN <<name[1], version[1], version[2]>>
            ELSE <<name[1], <<>>, name[2]>>
        Name(name) ==
            IF name = <<>> THEN <<>>
            ELSE IF name[2] <= Len(s) /\ s[name[2]] = ","
            THEN Version(name, Quoted(s, SkipIn(s, Whitespace, name[2] + 1)))
            ELSE <<name[1], <<>>, name[2]>>
    IN  Name(KeywordQuoted(s, LIT_gem, i))

\* ^([a-zA-Z0-9\-_]+)\s*=\s*"([^"]+)"  as CARGO_PATTERN.match(s)
CARGO_PATTERN(s) ==
    LET Close(j, m, n) ==   \* m, n: the quotes around the version
            IF n <= Len(s) /\ n >= m + 2
            THEN <<SubSeq(s, 1, j - 1), SubSeq(s, m + 1, n - 1)>>
            ELSE <<>>
        Open(j, m) ==
            IF m <= Len(s) /\ s[m] = QUOTE
            THEN Close(j, m, FindIn(s, {QUOTE}, m + 1))
            ELSE <<>>
        Equals(j, k) ==     \* j: after the name, k: after \s*
            IF k <= Len(s) /\ s[k] = "="
            THEN Open(j, SkipIn(s, Whitespace, k + 1))
            ELSE <<>>
        Name(j) ==
            IF j > 1 THEN Equals(j, SkipIn(s, Whitespace, j)) ELSE <<>>
    IN  Name(SkipIn(s, NameChars, 1))

\* <tag>([^<]+)</tag>  matched at position i: the three POM patterns
PomElement(s, open, close, i) ==
    LET Body(a, b) ==       \* a: after the opening tag, b: the next "<"
            IF b > a /\ OccursAt(s, close, b)
            THEN <<SubSeq(s, a, b - 1), b + Len(close)>>
            ELSE <<>>
    IN  IF OccursAt(s, open, i)
        THEN Body(i + Len(open), FindIn(s, {"<"}, i + Len(open)))
        ELSE <<>>

POM_VERSION_PATTERN(s, i) == PomElement(s, TAG_version, END_version, i)

POM_ARTIFACT_PATTERN(s, i) == PomElement(s, TAG_artifactId, END_artifactId, i)

POM_GROUP_PATTERN(s, i) == PomElement(s, TAG_groupId, END_groupId, i)

\* implementation\s+['"]([^'"]+)['"]  matched at position i (parse_gradle's
\* dep_pattern)
dep_pattern(s, i) == KeywordQuoted(s, LIT_implementation, i)

----------------------------------------------------------------------------
(* The parsers.  Each takes the text of one file and returns the sequence  *)
(* of <<name, version>> pairs in emission order.  The loops over lines     *)
(* carry the parser's local variables as a record.                         *)

\* "match = PACKAGE_JSON_PATTERN.search(line); if match: deps.append(...)"
AppendMatch(deps, match) == IF match # <<>> THEN Append(deps, match) ELSE deps

\* one iteration of the loop of parse_package_json and of parse_composer,
\* which differ only in the keys that open a block
JsonBlockLine(line, keys, st) ==
    IF \E k \in keys : Contains(line, k)
    THEN [in_deps |-> TRUE, deps |-> st.deps]
    ELSE IF st.in_deps
    THEN IF HasChar(line, "}")
         THEN [in_deps |-> FALSE, deps |-> st.deps]
         ELSE [in_deps |-> TRUE,
               deps |-> AppendMatch(st.deps, PackageJsonSearch(line, 1))]
    ELSE st

RECURSIVE JsonBlockLoop(_, _, _, _)
JsonBlockLoop(lines, keys, i, st) ==
    IF i > Len(lines) THEN st.deps
    ELSE JsonBlockLoop(lines, keys, i + 1, JsonBlockLine(lines[i], keys, st))

parse_package_json(text) ==
    JsonBlockLoop(Split(text, NL), {KEY_dependencies, KEY_devDependencies}, 1,
                  [in_deps |-> FALSE, deps |-> <<>>])

parse_package_lock(text) == <<>>

\* "name = match.group(1); version = match.group(2) or '*'; deps.append(...)"
AppendOrStar(deps, match) ==
    IF match = <<>> THEN deps
    ELSE Append(deps, <<match[1], IF match[2] = <<>> THEN LIT_star ELSE match[2]>>)

\* one iteration of parse_requirements, line already stripped
RequirementsLine(line, deps) ==
    IF line # <<>> /\ ~StartsWith(line, <<"#">>)
    THEN AppendOrStar(deps, REQUIREMENTS_PATTERN(line))
    ELSE deps

RECURSIVE RequirementsLoop(_, _, _)
RequirementsLoop(lines, i, deps) ==
    IF i > Len(lines) THEN deps
    ELSE RequirementsLoop(lines, i + 1, RequirementsLine(Strip(lines[i]), deps))

parse_requirements(text) == RequirementsLoop(Split(text, NL), 1, <<>>)

\* an entry appended whatever its name
PipfileEntryUnchecked(parts, deps) ==
    Append(deps, <<Strip(parts[1]), StripChars(Strip(parts[2]), QuoteChars)>>)

\* the body of parse_pipfile's "if in_packages and '=' in line"
PipfileEntry(parts, deps) ==
    LET Emit(name, version) ==
            IF name # <<>> THEN Append(deps, <<name, version>>) ELSE deps
    IN  Emit(Strip(parts[1]), StripChars(Strip(parts[2]), QuoteChars))

\* one iteration of parse_pipfile; stripped is line.strip()
PipfileLine(line, stripped, st) ==
    LET Entry(in_packages) ==
            IF in_packages /\ HasChar(line, "=")
            THEN [in_packages |-> in_packages,
                  deps |-> PipfileEntry(Split1(line, "="), st.deps)]
            ELSE [in_packages |-> in_packages, deps |-> st.deps]
    IN  IF StartsWith(stripped, SEC_packages)
        THEN [in_packages |-> TRUE, deps |-> st.deps]
        ELSE Entry(IF StartsWith(stripped, <<"[">>) THEN FALSE ELSE st.in_packages)

RECURSIVE PipfileLoop(_, _, _)
PipfileLoop(lines, i, st) ==
    IF i > Len(lines) THEN st.deps
    ELSE PipfileLoop(lines, i + 1, PipfileLine(lines[i], Strip(lines[i]), st))

parse_pipfile(text) ==
    PipfileLoop(Split(text, NL), 1, [in_packages |-> FALSE, deps |-> <<>>])

parse_pipfile_lock(text) == <<>>

\* one iteration of parse_go_mod, line already stripped
GoModLine(line, deps) ==
    IF line # <<>> /\ ~StartsWith(line, LIT_slashes)
    THEN AppendMatch(deps, GO_MOD_PATTERN(line))
    ELSE deps

RECURSIVE GoModLoop(_, _, _)
GoModLoop(lines, i, deps) ==
    IF i > Len(lines) THEN deps
    ELSE GoModLoop(lines, i + 1, GoModLine(Strip(lines[i]), deps))

parse_go_mod(text) == GoModLoop(Split(text, NL), 1, <<>>)

parse_go_sum(text) == <<>>

\* GEMFILE_PATTERN.finditer(text) from position i on, with the loop body
RECURSIVE GemfileLoop(_, _, _)
GemfileLoop(text, i, deps) ==
    LET Try(match) ==
            IF match # <<>>
            THEN GemfileLoop(text, match[3], AppendOrStar(deps, match))
            ELSE GemfileLoop(text, i + 1, deps)
    IN  IF i > Len(text) THEN deps ELSE Try(GEMFILE_PATTERN(text, i))

parse_gemfile(text) == GemfileLoop(text, 1, <<>>)

parse_gemfile_lock(text) == <<>>

\* one iteration of parse_cargo; stripped is line.strip()
CargoLine(line, stripped, st) ==
    LET Entry(in_deps) ==
            IF in_deps
            THEN [in_deps |-> TRUE, deps |-> AppendMatch(st.deps, CARGO_PATTERN(line))]
            ELSE [in_deps |-> FALSE, deps |-> st.deps]
    IN  IF Contains(line, SEC_dependencies)
        THEN [in_deps |-> TRUE, deps |-> st.deps]
        ELSE Entry(IF st.in_deps /\ StartsWith(stripped, <<"[">>)
                   THEN FALSE ELSE st.in_deps)

RECURSIVE CargoLoop(_, _, _)
CargoLoop(lines, i, st) ==
    IF i > Len(lines) THEN st.deps
    ELSE CargoLoop(lines, i + 1, CargoLine(lines[i], Strip(lines[i]), st))

parse_cargo(text) ==
    CargoLoop(Split(text, NL), 1, [in_deps |-> FALSE, deps |-> <<>>])

parse_cargo_lock(text) == <<>>

\* POM_*_PATTERN.findall(text) for the element <open>...<close>
RECURSIVE PomFindAll(_, _, _, _, _)
PomFindAll(text, open, close, i, found) ==
    LET Try(match) ==
            IF match # <<>>
            THEN PomFindAll(text, open, close, match[2], Append(found, match[1]))
            ELSE PomFindAll(text, open, close, i + 1, found)
    IN  IF i > Len(text) THEN found ELSE Try(PomElement(text, open, close, i))

Min(a, b) == IF a <= b THEN a ELSE b

\* lines 228-231: the positional pairing
PomPairs(artifacts, groups, versions) ==
    [i \in 1..Min(Len(artifacts), Len(versions)) |->
        <<(IF i <= Len(groups) THEN groups[i] ELSE LIT_unknown)
              \o <<":">> \o artifacts[i],
          versions[i]>>]

parse_pom(text) ==
    PomPairs(PomFindAll(text, TAG_artifactId, END_artifactId, 1, <<>>),
             PomFindAll(text, TAG_groupId, END_groupId, 1, <<>>),
             PomFindAll(text, TAG_version, END_version, 1, <<>>))

\* the body of parse_gradle's loop; parts is match.group(1).split(':')
GradleEntry(parts, deps) ==
    IF Len(parts) >= 3
    THEN Append(deps, <<parts[1] \o <<":">> \o parts[2], parts[3]>>)
    ELSE deps

RECURSIVE GradleLoop(_, _, _)
GradleLoop(text, i, deps) ==
    LET Try(match) ==
            IF match # <<>>
            THEN GradleLoop(text, match[2], GradleEntry(Split(match[1], ":"), deps))
            ELSE GradleLoop(text, i + 1, deps)
    IN  IF i > Len(text) THEN deps ELSE Try(dep_pattern(text, i))

parse_gradle(text) ==  GradleLoop(text, 1, <<>>)

parse_composer(text) ==
    JsonBlockLoop(Split(text, NL), {KEY_require}, 1,
                  [in_deps |-> FALSE, deps |-> <<>>])

----------------------------------------------------------------------------
(* The tables of the source.                                               *)

\* filename -> <<ecosystem, parser name>>
DEPENDENCY_FILES ==
    [f \in {"package.json", "package-lock.json", "requirements.txt", "Pipfile",
            "Pipfile.lock", "go.mod", "go.sum", "Gemfile", "Gemfile.lock",
            "Cargo.toml", "Cargo.lock", "pom.xml", "build.gradle",
            "composer.json"} |->
        CASE f = "package.json" -> <<"npm", "parse_package_json">>
          [] f = "package-lock.json" -> <<"npm", "parse_package_lock">>
          [] f = "requirements.txt" -> <<"pip", "parse_requirements">>
          [] f = "Pipfile" -> <<"pip", "parse_pipfile">>
          [] f = "Pipfile.lock" -> <<"pip", "parse_pipfile_lock">>
          [] f = "go.mod" -> <<"go", "parse_go_mod">>
          [] f = "go.sum" -> <<"go", "parse_go_sum">>
          [] f = "Gemfile" -> <<"gem", "parse_gemfile">>
          [] f = "Gemfile.lock" -> <<"gem", "parse_gemfile_lock">>
          [] f = "Cargo.toml" -> <<"cargo", "parse_cargo">>
          [] f = "Cargo.lock" -> <<"cargo", "parse_cargo_lock">>
          [] f = "pom.xml" -> <<"maven", "parse_pom">>
          [] f = "build.gradle" -> <<"gradle", "parse_gradle">>
          [] f = "composer.json" -> <<"composer", "parse_composer">>]

PRUNE_DIRS ==
    {".git", ".svn", ".hg",
     "node_modules", "vendor", "bower_components",
     "__pycache__", ".pytest_cache", ".tox",
     "venv", "env", ".env", ".venv",
     "target", "build", "dist", ".build",
     ".idea", ".vscode", ".vs"}

\* getattr(self, parser_name)(text, file_path)
Parser(parser_name, text) ==
    CASE parser_name = "parse_package_json" -> parse_package_json(text)
      [] parser_name = "parse_package_lock" -> parse_package_lock(text)
      [] parser_name = "parse_requirements" -> parse_requirements(text)
      [] parser_name = "parse_pipfile" -> parse_pipfile(text)
      [] parser_name = "parse_pipfile_lock" -> parse_pipfile_lock(text)
      [] parser_name = "parse_go_mod" -> parse_go_mod(text)
      [] parser_name = "parse_go_sum" -> parse_go_sum(text)
      [] parser_name = "parse_gemfile" -> parse_gemfile(text)
      [] parser_name = "parse_gemfile_lock" -> parse_gemfile_lock(text)
      [] parser_name = "parse_cargo" -> parse_cargo(text)
      [] parser_name = "parse_cargo_lock" -> parse_cargo_lock(text)
      [] parser_name = "parse_pom" -> parse_pom(text)
      [] parser_name = "parse_gradle" -> parse_gradle(text)
      [] parser_name = "parse_composer" -> parse_composer(text)

----------------------------------------------------------------------------
(* Paths.  A path is the sequence of its components.                       *)

\* Path(root_path).resolve(): the absolute path of the scan root
root_path == <<"/", "scan">>

\* file_path.relative_to(self.root_path)
relative_to(path, base) ==
    IF Len(path) >= Len(base) /\ SubSeq(path, 1, Len(base)) = base
    THEN From(path, Len(base) + 1)
    ELSE <<"ValueError">>

----------------------------------------------------------------------------
(* _parse_dependency_file.  What open() and read() do is the environment's *)
(* answer, an outcome:                                                      *)
(*   "ok"              the file is read as UTF-8                            *)
(*   "OSError"         open or read raises OSError                          *)
(*   "decode_ok"       UTF-8 decoding raises UnicodeDecodeError, the        *)
(*                     Latin-1 read succeeds                                *)
(*   "decode_OSError"  UnicodeDecodeError, then the second open raises      *)
(*   "ValueError"      the parser raises ValueError                         *)
(*   "Exception"       the parser raises another Exception                  *)
(* text is what the read that succeeds returns.                             *)

Outcomes == {"ok", "OSError", "decode_ok", "decode_OSError", "ValueError", "Exception"}

\* the records one parser call appends (lines 93-100 and 105-112)
RecordsOf(file_path, name, text) ==
    LET Records(ecosystem, deps) ==
            [i \in 1..Len(deps) |->
                [ecosystem |-> ecosystem,
                 package |-> deps[i][1],
                 version |-> deps[i][2],
                 file |-> relative_to(file_path, root_path)]]
    IN  Records(DEPENDENCY_FILES[name][1], Parser(DEPENDENCY_FILES[name][2], text))

\* a try block whose decoding error only surfaces after the parser ran
\* and its records were appended
Utf8BlockLateDecodeError(deps, file_path, name, outcome, text) ==
    CASE outcome = "OSError" ->
            [raised |-> "OSError", deps |-> deps, calls |-> 0]
      [] outcome \in {"decode_ok", "decode_OSError"} ->
            [raised |-> "UnicodeDecodeError",
             deps |-> deps \o RecordsOf(file_path, name, text), calls |-> 1]
      [] outcome \in {"ValueError", "Exception"} ->
            [raised |-> outcome, deps |-> deps, calls |-> 1]
      [] outcome = "ok" ->
            [raised |-> "none", deps |-> deps \o RecordsOf(file_path, name, text),
             calls |-> 1]

\* the try block (lines 90-100): open as UTF-8, read, parse, append
Utf8Block(deps, file_path, name, outcome, text) ==
    CASE outcome = "OSError" ->
            [raised |-> "OSError", deps |-> deps, calls |-> 0]
      [] outcome \in {"decode_ok", "decode_OSError"} ->
            [raised |-> "UnicodeDecodeError", deps |-> deps, calls |-> 0]
      [] outcome \in {"ValueError", "Exception"} ->
            [raised |-> outcome, deps |-> deps, calls |-> 1]
      [] outcome = "ok" ->
            [raised |-> "none", deps |-> deps \o RecordsOf(file_path, name, text),
             calls |-> 1]

\* the except block (lines 101-112): open as Latin-1, read, parse, append
Latin1Block(deps, file_path, name, outcome, text, calls) ==
    IF outcome = "decode_OSError"
    THEN [raised |-> "OSError", deps |-> deps, calls |-> calls]
    ELSE [raised |-> "none", deps |-> deps \o RecordsOf(file_path, name, text),
          calls |-> calls + 1]

\* _parse_dependency_file: the exception that leaves it ("none" when it
\* returns), self.dependencies afterwards, and how often the parser ran
parse_dependency_file(deps, file_path, name, outcome, text) ==
    LET Except(first) ==
            IF first.raised = "UnicodeDecodeError"
            THEN Latin1Block(first.deps, file_path, name, outcome, text, first.calls)
            ELSE first
    IN  Except(Utf8Block(deps, file_path, name, outcome, text))

----------------------------------------------------------------------------
(* The directory tree under the scan root.  tree[i] is entry i: its parent *)
(* (0 is the root, otherwise an earlier directory entry), its base name    *)
(* and whether it is a directory or a regular file.  The operating system  *)
(* enumerates the entries of one directory in the order of their indices.  *)

MaxEntries == 4

EntryKinds ==
    {<<"src", "dir">>, <<"lib", "dir">>, <<"node_modules", "dir">>,
     <<"package.json", "file">>, <<"invalid.json", "file">>}

\* e can be added to tree t: its parent is the root or a directory of t, not
\* before the parent of the last entry (entries are listed parent by
\* parent), and the parent holds no entry of that name yet.  "src" and "lib"
\* are two names outside PRUNE_DIRS that the program treats alike, so "lib"
\* only names a second such directory, beside a "src" listed before it.
CanAdd(t, e) ==
    /\ e.parent = 0 \/ (e.parent \in 1..Len(t) /\ t[e.parent].kind = "dir")
    /\ t # <<>> => e.parent >= t[Len(t)].parent
    /\ \A i \in 1..Len(t) : ~(t[i].parent = e.parent /\ t[i].name = e.name)
    /\ e.name = "lib" =>
          \E i \in 1..Len(t) : t[i].parent = e.parent /\ t[i].name = "src"

RECURSIVE TreesOfSize(_)
TreesOfSize(n) ==
    IF n = 0 THEN {<<>>}
    ELSE {Append(t, [parent |-> p, name |-> k[1], kind |-> k[2]]) :
            <<t, p, k>> \in
              {x \in TreesOfSize(n - 1) \X (0..(n - 1)) \X EntryKinds :
                  CanAdd(x[1], [parent |-> x[2], name |-> x[3][1], kind |-> x[3][2]])}}

Trees == UNION {TreesOfSize(n) : n \in 0..MaxEntries}

\* the indices 1..n as a sequence
Indices(n) == [i \in 1..n |-> i]

\* os.scandir(d), split as os.walk splits it: the directories and the
\* other entries of directory d, each in enumeration order
DirsOf(t, d) ==
    SelectSeq(Indices(Len(t)), LAMBDA i : t[i].parent = d /\ t[i].kind = "dir")

FilesOf(t, d) ==
    SelectSeq(Indices(Len(t)), LAMBDA i : t[i].parent = d /\ t[i].kind = "file")

\* the path of entry i relative to the root, and root_path / that path
RECURSIVE RelPath(_, _)
RelPath(t, i) ==
    IF i = 0 THEN <<>> ELSE Append(RelPath(t, t[i].parent), t[i].name)

AbsPath(t, i) == root_path \o RelPath(t, i)

\* a walk that filters nothing
NoPrune(t, dirs) == dirs

\* line 68: dirs[:] = [d for d in dirs if d not in PRUNE_DIRS]
Prune(t, dirs) == SelectSeq(dirs, LAMBDA i : t[i].name \notin PRUNE_DIRS)

----------------------------------------------------------------------------
(* The texts the files of a scanned tree may hold.                         *)

PAIR_valid == <<QUOTE,"v","a","l","i","d",QUOTE,":"," ",QUOTE,"1",".","0",".","0",QUOTE>>

\* the layout test_directory_pruning writes: the whole object on one line
TEXT_test_layout ==
    <<"{">> \o KEY_dependencies \o <<":", " ", "{">> \o PAIR_valid \o <<"}", "}">>

\* a block of two entries, one per line, naming the same package twice
TEXT_block ==
    Join(<< <<"{">>,
            KEY_dependencies \o <<":", " ", "{">>,
            PAIR_valid \o <<",">>,
            PAIR_valid,
            <<"}">>,
            <<"}">> >>, NL)

ScanTexts == {TEXT_test_layout, TEXT_block}

----------------------------------------------------------------------------
(* main, DependencyScanner.scan and write_csv.                             *)

OutputPaths == {"dependencies.csv", "out.csv"}

\* line 286
output_file == IF Len(argv) > 2 THEN argv[3] ELSE "dependencies.csv"

\* lines 271-274: the header row and one row per record
CsvRows(deps) ==
    <<<<"ecosystem", "package", "version", "file">>>> \o
    [i \in 1..Len(deps) |->
        <<deps[i].ecosystem, deps[i].package, deps[i].version, deps[i].file>>]

\* a writer that writes the header row also when there are no records
write_csv_always(deps, path, fs, writable) ==
    IF ~writable
    THEN [fs |-> fs, stderr |-> <<>>, stdout |-> <<>>, raised |-> "OSError"]
    ELSE [fs |-> [fs EXCEPT ![path] = CsvRows(deps)], stderr |-> <<>>,
          stdout |-> <<<<"Written", Len(deps)>>>>, raised |-> "none"]

\* write_csv(dependencies, output_file) on the files fs.  writable: whether
\* open(output_file, 'w') succeeds; its OSError is not caught.
write_csv(deps, path, fs, writable) ==
    IF deps = <<>>
    THEN [fs |-> fs, stderr |-> <<"No dependencies found.">>, stdout |-> <<>>,
          raised |-> "none"]
    ELSE IF ~writable
    THEN [fs |-> fs, stderr |-> <<>>, stdout |-> <<>>, raised |-> "OSError"]
    ELSE [fs |-> [fs EXCEPT ![path] = CsvRows(deps)], stderr |-> <<>>,
          stdout |-> <<<<"Written", Len(deps)>>>>, raised |-> "none"]

\* lines 76-81: what scan prints for an exception of _parse_dependency_file
ScanDiagnostic(raised) ==
    CASE raised = "OSError" -> <<"Warning: Cannot read">>
      [] raised = "ValueError" -> <<"Warning: Invalid format">>
      [] raised = "Exception" -> <<"Error: Unexpected error">>
      [] raised = "none" -> <<>>

\* a scan whose loops end at the first exception
ResumeAbort(raised, rest, pending) ==
    IF raised = "none"
    THEN [files |-> rest, stack |-> pending]
    ELSE [files |-> <<>>, stack |-> <<>>]

\* lines 74-81: every except clause only prints, so after a file, failed or
\* not, the loops go on with the remaining files and directories
Resume(raised, rest, pending) == [files |-> rest, stack |-> pending]

\* a walk that takes the kept subdirectories last to first
RECURSIVE WalkOrderReversed(_, _)
WalkOrderReversed(kept, pending) ==
    IF kept = <<>> THEN pending
    ELSE WalkOrderReversed(Tail(kept), <<Head(kept)>> \o pending)

\* os.walk(topdown=True): the kept subdirectories are walked, in their
\* order, before the directories that were already pending
WalkOrder(kept, pending) == kept \o pending

Init ==
    /\ pc = "main"
    /\ argv \in {<<"build-deps-csv.py">>,
                 <<"build-deps-csv.py", "root">>,
                 <<"build-deps-csv.py", "root", "out.csv">>}
    /\ root_is_dir \in (IF Len(argv) >= 2 THEN BOOLEAN ELSE {FALSE})
    /\ tree \in (IF root_is_dir THEN Trees ELSE {<<>>})
    /\ \E old \in {"absent", "old"} : out_file = [p \in OutputPaths |-> old]
    /\ stack = <<>>
    /\ cur = -1
    /\ files = <<>>
    /\ dependencies = <<>>
    /\ attempts = <<>>
    /\ stderr = <<>>
    /\ stdout = <<>>
    /\ exit_code = -1
    /\ filename = ""
    /\ content = <<>>
    /\ parsed = 0

\* main, lines 281-292: argument validation, then the scanner is built
MainValidate ==
    /\ pc = "main"
    /\ IF Len(argv) < 2
       THEN /\ stderr' = Append(stderr, "Usage")
            /\ exit_code' = 1
            /\ pc' = "exit"
            /\ UNCHANGED stack
       ELSE IF ~root_is_dir
       THEN /\ stderr' = Append(stderr, "Error: not a directory")
            /\ exit_code' = 1
            /\ pc' = "exit"
            /\ UNCHANGED stack
       ELSE /\ pc' = "walk"
            /\ stack' = <<0>>
            /\ UNCHANGED <<stderr, exit_code>>
    /\ UNCHANGED <<argv, root_is_dir, tree, cur, files, dependencies, attempts,
                   stdout, out_file, filename, content, parsed>>

\* scan, lines 66-70: os.walk yields the next directory; its subdirectories
\* are pruned before the walk descends into them
WalkDir ==
    /\ pc = "walk"
    /\ stack # <<>>
    /\ cur' = Head(stack)
    /\ files' = FilesOf(tree, Head(stack))
    /\ stack' = WalkOrder(Prune(tree, DirsOf(tree, Head(stack))), Tail(stack))
    /\ pc' = IF files' = <<>> THEN "walk" ELSE "files"
    /\ UNCHANGED <<argv, root_is_dir, tree, dependencies, attempts, stderr,
                   stdout, out_file, exit_code, filename, content, parsed>>

\* scan, lines 71-81: the next file of the current directory.  attempts
\* records, per call of _parse_dependency_file, the entry, what the
\* environment answered and the text a successful read returned.
ScanFile ==
    /\ pc = "files"
    /\ files # <<>>
    /\ LET Go(next) ==
               /\ files' = next.files
               /\ stack' = next.stack
               /\ pc' = IF next.files = <<>> THEN "walk" ELSE "files"
           Done(f, outcome, text, r) ==    \* r: what _parse_dependency_file did
               /\ dependencies' = r.deps
               /\ stderr' = stderr \o ScanDiagnostic(r.raised)
               /\ attempts' = Append(attempts,
                      [entry |-> f, outcome |-> outcome, calls |-> r.calls,
                       text |-> IF r.raised = "none" THEN text ELSE <<>>])
               /\ Go(Resume(r.raised, Tail(files), stack))
           File(f, name) ==
               IF name \in DOMAIN DEPENDENCY_FILES
               THEN \E outcome \in Outcomes, text \in ScanTexts :
                      Done(f, outcome, text,
                           parse_dependency_file(dependencies, AbsPath(tree, f),
                                                 name, outcome, text))
               ELSE /\ Go([files |-> Tail(files), stack |-> stack])
                    /\ UNCHANGED <<dependencies, stderr, attempts>>
       IN  File(Head(files), tree[Head(files)].name)
    /\ UNCHANGED <<argv, root_is_dir, tree, cur, stdout, out_file,
                   exit_code, filename, content, parsed>>

\* scan, line 83: the walk is over, scan returns self.dependencies
ScanReturn ==
    /\ pc = "walk"
    /\ stack = <<>>
    /\ pc' = "write"
    /\ UNCHANGED <<argv, root_is_dir, tree, stack, cur, files, dependencies,
                   attempts, stderr, stdout, out_file, exit_code, filename,
                   content, parsed>>

\* main, line 294: write_csv, then the process ends: with status 0 when
\* write_csv returns, with status 1 and a traceback when it raises
WriteCsv ==
    /\ pc = "write"
    /\ \E writable \in BOOLEAN :
          LET End(w) ==
                  /\ out_file' = w.fs
                  /\ stdout' = stdout \o w.stdout
                  /\ stderr' = stderr \o w.stderr \o
                        (IF w.raised = "none" THEN <<>> ELSE <<"Traceback">>)
                  /\ exit_code' = IF w.raised = "none" THEN 0 ELSE 1
          IN  End(write_csv(dependencies, output_file, out_file, writable))
    /\ pc' = "exit"
    /\ UNCHANGED <<argv, root_is_dir, tree, stack, cur, files, dependencies,
                   attempts, filename, content, parsed>>

Next ==
    \/ MainValidate
    \/ WalkDir
    \/ ScanFile
    \/ ScanReturn
    \/ WriteCsv

Spec == Init /\ [][Next]_vars

----------------------------------------------------------------------------
(* Parsing one file of any recognized name: the texts are built of up to   *)
(* MaxLines lines drawn, per format, from the lines below; the texts the   *)
(* unit tests pass to the parsers are added as they are written there.     *)

MaxLines == 3

LinesPackageJson ==
    {<<"{">>,   \* {
     <<"}">>,   \* }
     <<"\"","n","a","m","e","\"",":"," ","\"","a","p","p","\"",",">>,   \* "name": "app",
     <<"\"","d","e","p","e","n","d","e","n","c","i","e","s","\"",":"," ","{">>,   \* "dependencies": {
     <<"\"","d","e","p","e","n","d","e","n","c","i","e","s","\"",":"," ","{","}",",">>,   \* "dependencies": {},
     <<" "," ","\"","e","x","p","r","e","s","s","\"",":"," ","\"","^","4",".","1","7",".","1","\"",",">>,   \*   "express": "^4.17.1",
     <<"\"","l","i","c","e","n","s","e","\"",":"," ","\"","M","I","T","\"">>,   \* "license": "MIT"
     <<"\"","d","e","v","D","e","p","e","n","d","e","n","c","i","e","s","\"",":"," ","{">>}   \* "devDependencies": {

LinesRequirements ==
    {<<"r","e","q","u","e","s","t","s",">","=","2",".","2","5",".","1">>,   \* requests>=2.25.1
     <<"n","u","m","p","y">>,   \* numpy
     <<"#"," ","c","o","m","m","e","n","t">>,   \* # comment
     <<" "," ","f","l","a","s","k","=","=","1",".","1",".","2">>,   \*   flask==1.1.2
     <<">","=","3",".","0">>,   \* >=3.0
     <<"-","e"," ",".">>,   \* -e .
     <<>>}   \* (an empty line)

LinesPipfile ==
    {<<"[","p","a","c","k","a","g","e","s","]">>,   \* [packages]
     <<"[","d","e","v","-","p","a","c","k","a","g","e","s","]">>,   \* [dev-packages]
     <<"r","e","q","u","e","s","t","s"," ","="," ","\"","*","\"">>,   \* requests = "*"
     <<" ","="," ","\"","1",".","0","\"">>,   \*  = "1.0"
     <<"f","l","a","s","k"," ","="," ","'","1",".","1","'">>,   \* flask = '1.1'
     <<"=">>,   \* =
     <<"u","r","l">>}   \* url

LinesGoMod ==
    {<<"m","o","d","u","l","e"," ","e","x","a","m","p","l","e",".","c","o","m","/","a","p","p">>,   \* module example.com/app
     <<"g","o"," ","1",".","1","9">>,   \* go 1.19
     <<"r","e","q","u","i","r","e"," ","(">>,   \* require (
     <<"\t","g","i","t","h","u","b",".","c","o","m","/","x","/","y"," ","v","1",".","7",".","7">>,   \* \tgithub.com/x/y v1.7.7
     <<")">>,   \* )
     <<"/","/"," ","i","n","d","i","r","e","c","t">>,   \* // indirect
     <<"v"," ","v">>}   \* v v

LinesGemfile ==
    {<<"g","e","m"," ","'","r","a","i","l","s","'",","," ","'","6",".","1",".","0","'">>,   \* gem 'rails', '6.1.0'
     <<"g","e","m"," ","'","p","g","'">>,   \* gem 'pg'
     <<"g","e","m"," ","\"","r","e","d","i","s","\"",","," ","\"","4",".","2",".","5","\"">>,   \* gem "redis", "4.2.5"
     <<"g","e","m"," ","'","'">>,   \* gem ''
     <<"g","e","m">>,   \* gem
     <<"'","x","'",","," ","'","'">>,   \* 'x', ''
     <<"g","e","m"," ","'","'",","," ","'","1","'">>}   \* gem '', '1'

LinesCargo ==
    {<<"[","p","a","c","k","a","g","e","]">>,   \* [package]
     <<"n","a","m","e"," ","="," ","\"","m","y","a","p","p","\"">>,   \* name = "myapp"
     <<"[","d","e","p","e","n","d","e","n","c","i","e","s","]">>,   \* [dependencies]
     <<"s","e","r","d","e"," ","="," ","\"","1",".","0","\"">>,   \* serde = "1.0"
     <<" "," ","t","o","k","i","o"," ","="," ","\"","1",".","1","7","\"">>,   \*   tokio = "1.17"
     <<" "," ","[","d","e","p","e","n","d","e","n","c","i","e","s","]">>,   \*   [dependencies]
     <<" ","="," ","\"","2","\"">>,   \*  = "2"
     <<>>}   \* (an empty line)

LinesPom ==
    {<<"<","g","r","o","u","p","I","d",">","g","<","/","g","r","o","u","p","I","d",">">>,   \* <groupId>g</groupId>
     <<"<","a","r","t","i","f","a","c","t","I","d",">","a","<","/","a","r","t","i","f","a","c","t","I","d",">">>,   \* <artifactId>a</artifactId>
     <<"<","v","e","r","s","i","o","n",">","1","<","/","v","e","r","s","i","o","n",">">>,   \* <version>1</version>
     <<"<","a","r","t","i","f","a","c","t","I","d",">","<","/","a","r","t","i","f","a","c","t","I","d",">">>,   \* <artifactId></artifactId>
     <<"<","d","e","p","e","n","d","e","n","c","y",">">>,   \* <dependency>
     <<"<","v","e","r","s","i","o","n",">","2","<","/","v","e","r","s","i","o","n",">">>,   \* <version>2</version>
     <<"<","a","r","t","i","f","a","c","t","I","d",">","b">>}   \* <artifactId>b

LinesGradle ==
    {<<"i","m","p","l","e","m","e","n","t","a","t","i","o","n"," ","'","g",":","a",":","1","'">>,   \* implementation 'g:a:1'
     <<"i","m","p","l","e","m","e","n","t","a","t","i","o","n"," ","\"","g",":","a","\"">>,   \* implementation "g:a"
     <<"i","m","p","l","e","m","e","n","t","a","t","i","o","n"," ","'",":",":","'">>,   \* implementation '::'
     <<"i","m","p","l","e","m","e","n","t","a","t","i","o","n"," ","'",":","a",":","2","'">>,   \* implementation ':a:2'
     <<"i","m","p","l","e","m","e","n","t","a","t","i","o","n"," ","'","'">>,   \* implementation ''
     <<"t","e","s","t","I","m","p","l","e","m","e","n","t","a","t","i","o","n"," ","'","g",":","b",":","3","'">>,   \* testImplementation 'g:b:3'
     <<"i","m","p","l","e","m","e","n","t","a","t","i","o","n">>}   \* implementation

LinesComposer ==
    {<<"{">>,   \* {
     <<"}">>,   \* }
     <<"\"","n","a","m","e","\"",":"," ","\"","x","\"",",">>,   \* "name": "x",
     <<"\"","r","e","q","u","i","r","e","\"",":"," ","{">>,   \* "require": {
     <<"\"","r","e","q","u","i","r","e","\"",":"," ","{","}",",">>,   \* "require": {},
     <<"\"","p","h","p","\"",":"," ","\"",">","=","7",".","0","\"">>,   \* "php": ">=7.0"
     <<"\"","\"",":"," ","\"","1","\"">>,   \* "": "1"
     <<"\"","r","e","q","u","i","r","e","-","d","e","v","\"",":"," ","{">>}   \* "require-dev": {

TEXT_test_parse_package_json ==
    Join(<<
        <<>>,
        <<" "," "," "," "," "," "," "," ","{">>,
        <<" "," "," "," "," "," "," "," "," "," ","\"","d","e","p","e","n","d","e","n","c","i","e","s","\"",":"," ","{">>,
        <<" "," "," "," "," "," "," "," "," "," "," "," ","\"","e","x","p","r","e","s","s","\"",":"," ","\"","^","4",".","1","7",".","1","\"",",">>,
        <<" "," "," "," "," "," "," "," "," "," "," "," ","\"","l","o","d","a","s","h","\"",":"," ","\"","^","4",".","1","7",".","2","1","\"">>,
        <<" "," "," "," "," "," "," "," "," "," ","}">>,
        <<" "," "," "," "," "," "," "," ","}">>,
        <<" "," "," "," "," "," "," "," ">>
    >>, NL)

TEXT_test_parse_cargo_toml ==
    Join(<<
        <<>>,
        <<" "," "," "," "," "," "," "," ","[","p","a","c","k","a","g","e","]">>,
        <<" "," "," "," "," "," "," "," ","n","a","m","e"," ","="," ","\"","m","y","a","p","p","\"">>,
        <<" "," "," "," "," "," "," "," ","v","e","r","s","i","o","n"," ","="," ","\"","0",".","1",".","0","\"">>,
        <<" "," "," "," "," "," "," "," ">>,
        <<" "," "," "," "," "," "," "," ","[","d","e","p","e","n","d","e","n","c","i","e","s","]">>,
        <<" "," "," "," "," "," "," "," ","s","e","r","d","e"," ","="," ","\"","1",".","0","\"">>,
        <<" "," "," "," "," "," "," "," ","t","o","k","i","o"," ","="," ","\"","1",".","1","7","\"">>,
        <<" "," "," "," "," "," "," "," ">>
    >>, NL)

\* the sequences of at most n lines drawn from the set lines
RECURSIVE LineSeqs(_, _)
LineSeqs(lines, n) ==
    IF n = 0 THEN {<<>>}
    ELSE LineSeqs(lines, n - 1) \cup
         {Append(ls, l) : ls \in LineSeqs(lines, n - 1), l \in lines}

TextsOver(lines) == {Join(ls, NL) : ls \in LineSeqs(lines, MaxLines)}

\* the texts a file of the given name may hold
ParseTexts(name) ==
    CASE name \in {"package.json", "package-lock.json"} ->
            TextsOver(LinesPackageJson) \cup {TEXT_test_parse_package_json, TEXT_test_layout}
      [] name = "requirements.txt" -> TextsOver(LinesRequirements)
      [] name \in {"Pipfile", "Pipfile.lock"} -> TextsOver(LinesPipfile)
      [] name \in {"go.mod", "go.sum"} -> TextsOver(LinesGoMod)
      [] name \in {"Gemfile", "Gemfile.lock"} -> TextsOver(LinesGemfile)
      [] name \in {"Cargo.toml", "Cargo.lock"} ->
            TextsOver(LinesCargo) \cup {TEXT_test_parse_cargo_toml}
      [] name = "pom.xml" -> TextsOver(LinesPom)
      [] name = "build.gradle" -> TextsOver(LinesGradle)
      [] name = "composer.json" -> TextsOver(LinesComposer)

InitParse ==
    /\ pc = "parse"
    /\ filename \in DOMAIN DEPENDENCY_FILES
    /\ content \in ParseTexts(filename)
    /\ argv = <<"build-deps-csv.py", "root">>
    /\ root_is_dir = TRUE
    /\ tree = <<[parent |-> 0, name |-> filename, kind |-> "file"]>>
    /\ out_file = [p \in OutputPaths |-> "absent"]
    /\ stack = <<>>
    /\ cur = 0
    /\ files = <<1>>
    /\ dependencies = <<>>
    /\ attempts = <<>>
    /\ stderr = <<>>
    /\ stdout = <<>>
    /\ exit_code = -1
    /\ parsed = 0

\* _parse_dependency_file on the one file of the root, whose read succeeds
\* as UTF-8 or through the Latin-1 fallback
ParseFile ==
    /\ pc = "parse"
    /\ \E outcome \in {"ok", "decode_ok"} :
          LET Done(r) ==
                  /\ dependencies' = r.deps
                  /\ attempts' = Append(attempts,
                         [entry |-> 1, outcome |-> outcome, calls |-> r.calls,
                          text |-> content])
          IN  Done(parse_dependency_file(dependencies, AbsPath(tree, 1), filename,
                                         outcome, content))
    /\ parsed' = parsed + 1
    /\ files' = <<>>
    /\ pc' = "parsed"
    /\ UNCHANGED <<argv, root_is_dir, tree, stack, cur, stderr, stdout, out_file,
                   exit_code, filename, content>>

NextParse == ParseFile

SpecParse == InitParse /\ [][NextParse]_vars

----------------------------------------------------------------------------
(* What the claims speak of, stated on the tree and on the history, apart  *)
(* from the walk.                                                           *)

\* entry i lies beneath a directory whose base name is in PRUNE_DIRS
RECURSIVE UnderPruned(_, _)
UnderPruned(t, i) ==
    /\ i # 0
    /\ t[i].parent # 0
    /\ \/ t[t[i].parent].name \in PRUNE_DIRS
       \/ UnderPruned(t, t[i].parent)

\* entry i is a regular file with a recognized manifest name outside every
\* pruned directory
IsCandidate(t, i) ==
    /\ t[i].kind = "file"
    /\ t[i].name \in DOMAIN DEPENDENCY_FILES
    /\ ~UnderPruned(t, i)

CandidateSet(t) == {i \in 1..Len(t) : IsCandidate(t, i)}

\* the candidates in top-down order: those of directory d, then those of
\* each of its subdirectories in turn
RECURSIVE Discovery(_, _)
RECURSIVE DiscoveryAll(_, _)
Discovery(t, d) ==
    SelectSeq(Indices(Len(t)), LAMBDA i : t[i].parent = d /\ IsCandidate(t, i))
    \o DiscoveryAll(t, SelectSeq(Indices(Len(t)),
                        LAMBDA i : /\ t[i].parent = d
                                   /\ t[i].kind = "dir"
                                   /\ t[i].name \notin PRUNE_DIRS))

DiscoveryAll(t, ds) ==
    IF ds = <<>> THEN <<>>
    ELSE Discovery(t, Head(ds)) \o DiscoveryAll(t, Tail(ds))

Entries(as) == [k \in 1..Len(as) |-> as[k].entry]

ReadOk(a) == a.outcome \in {"ok", "decode_ok"}

CannotRead(a) == a.outcome \in {"OSError", "decode_OSError"}

\* what each file name's parser returns for each text a scanned file can hold
ParsedPairs ==
    [name \in DOMAIN DEPENDENCY_FILES |->
        [text \in ScanTexts |-> Parser(DEPENDENCY_FILES[name][2], text)]]

\* the records of entry i holding text: one per pair of its parser, with the
\* ecosystem of its name and its path below the root
FileRecords(t, i, text) ==
    [j \in 1..Len(ParsedPairs[t[i].name][text]) |->
        [ecosystem |-> DEPENDENCY_FILES[t[i].name][1],
         package |-> ParsedPairs[t[i].name][text][j][1],
         version |-> ParsedPairs[t[i].name][text][j][2],
         file |-> RelPath(t, i)]]

\* the parser output, as records, of the files read and parsed successfully
\* among the first n attempts, in the order of the attempts
RECURSIVE ExpectedDeps(_, _, _)
ExpectedDeps(t, as, n) ==
    IF n = 0 THEN <<>>
    ELSE ExpectedDeps(t, as, n - 1) \o
         (IF ReadOk(as[n])
          THEN FileRecords(t, as[n].entry, as[n].text)
          ELSE <<>>)

\* the parser calls made for entry i among the first n attempts
RECURSIVE CallsFor(_, _, _)
CallsFor(as, i, n) ==
    IF n = 0 THEN 0
    ELSE CallsFor(as, i, n - 1) + (IF as[n].entry = i THEN as[n].calls ELSE 0)

IsPrefix(s, u) == Len(s) <= Len(u) /\ SubSeq(u, 1, Len(s)) = s

Pairs(deps) == [j \in 1..Len(deps) |-> <<deps[j].package, deps[j].version>>]

Validated == Len(argv) >= 2 /\ root_is_dir

----------------------------------------------------------------------------
(* The claims.                                                              *)

\* C1: no file beneath a directory whose base name is in PRUNE_DIRS, at any
\* depth, is ever opened or handed to a parser, and the walk never enters or
\* queues such a directory: pruning happens before the descent.
C1_PrunedNeverRead ==
    /\ \A k \in 1..Len(attempts) : ~UnderPruned(tree, attempts[k].entry)
    /\ \A k \in 1..Len(files) : ~UnderPruned(tree, files[k])
    /\ \A d \in {stack[k] : k \in 1..Len(stack)} \cup {cur} :
          d >= 1 => tree[d].name \notin PRUNE_DIRS /\ ~UnderPruned(tree, d)

\* a scan is over that read a manifest while another manifest sat two levels
\* below a pruned directory, in a subdirectory whose own name is not pruned
C1_Witness ==
    /\ pc = "write"
    /\ attempts # <<>>
    /\ \E i \in 1..Len(tree) :
          /\ tree[i].kind = "file"
          /\ tree[i].name \in DOMAIN DEPENDENCY_FILES
          /\ UnderPruned(tree, i)
          /\ tree[tree[i].parent].name \notin PRUNE_DIRS

\* C2: a failure on one candidate file (OSError, ValueError, any other
\* exception) never aborts the scan: when scan returns, every candidate has
\* been attempted, and the result holds the records of all the files read and
\* parsed successfully.
C2_FailureNeverAborts ==
    /\ dependencies = ExpectedDeps(tree, attempts, Len(attempts))
    /\ pc \in {"write", "exit"} =>
          {attempts[k].entry : k \in 1..Len(attempts)} = CandidateSet(tree)

\* scan returned records of a file that was read after another file failed
C2_Witness ==
    /\ pc = "write"
    /\ dependencies # <<>>
    /\ \E k, m \in 1..Len(attempts) :
          /\ k < m
          /\ attempts[k].outcome \in {"OSError", "ValueError", "Exception"}
          /\ attempts[m].outcome = "ok"
          /\ attempts[m].text = TEXT_block

\* C3 as stated: when scan returns, every candidate file was handed to its
\* parser exactly once, never zero times and never twice.
C3_ParsedExactlyOnce ==
    pc = "write" =>
        \A i \in CandidateSet(tree) : CallsFor(attempts, i, Len(attempts)) = 1

\* C3 as amended: when scan returns, every candidate file was passed to
\* _parse_dependency_file exactly once and no other entry ever was; its
\* parser ran once if the file could be read (as UTF-8 or by the Latin-1
\* fallback) and not at all if open or read raised OSError; and its records
\* are in the result once if it was read and parsed, else not at all.
C3_AttemptedOnce ==
    pc = "write" =>
        \A i \in 1..Len(tree) :
            LET A == {k \in 1..Len(attempts) : attempts[k].entry = i}
                InResult == Cardinality({j \in 1..Len(dependencies) :
                                dependencies[j].file = RelPath(tree, i)})
            IN  IF IsCandidate(tree, i)
                THEN /\ Cardinality(A) = 1
                     /\ \A k \in A :
                           /\ attempts[k].calls = IF CannotRead(attempts[k]) THEN 0 ELSE 1
                           /\ InResult =
                                 IF ReadOk(attempts[k])
                                 THEN Len(ParsedPairs[tree[i].name][attempts[k].text])
                                 ELSE 0
                ELSE A = {} /\ InResult = 0

\* scan returned after one file went through the Latin-1 fallback and gave
\* records, and another could not be opened
C3_Witness ==
    /\ pc = "write"
    /\ \E k, m \in 1..Len(attempts) :
          /\ attempts[k].outcome = "decode_ok"
          /\ attempts[k].text = TEXT_block
          /\ attempts[m].outcome = "OSError"

\* C4: a root with a top-level package.json declaring one dependency and a
\* package.json inside node_modules, both written as test_directory_pruning
\* writes them (the whole object on one line), scans to exactly one record,
\* naming the top-level dependency.
C4_TestLayoutOneRecord ==
    ( /\ pc = "write"
      /\ \E r, n, m \in 1..Len(tree) :
            /\ tree[r] = [parent |-> 0, name |-> "package.json", kind |-> "file"]
            /\ tree[n] = [parent |-> 0, name |-> "node_modules", kind |-> "dir"]
            /\ tree[m] = [parent |-> n, name |-> "package.json", kind |-> "file"]
            /\ CandidateSet(tree) = {r}
            /\ attempts = <<[entry |-> r, outcome |-> "ok", calls |-> 1,
                             text |-> TEXT_test_layout]>> )
    => /\ Len(dependencies) = 1
       /\ dependencies[1].package = <<"v", "a", "l", "i", "d">>

\* the text with every line stripped of its leading and trailing
\* whitespace
StripLines(text) ==
    Join([i \in 1..Len(Split(text, NL)) |-> Strip(Split(text, NL)[i])], NL)

\* the headers among the stripped lines of a text are [package], then
\* [dependencies]
IsPackageThenDependencies(text) ==
    SelectSeq(Split(StripLines(text), NL), LAMBDA l : StartsWith(l, <<"[">>))
        = <<<<"[","p","a","c","k","a","g","e","]">>, SEC_dependencies>>

\* C5: parse_cargo on a [package] section followed by a [dependencies]
\* section returns one pair per name = "version" line of [dependencies] and
\* none from [package], also when the lines carry leading whitespace: the
\* result is that of the same text without the indentation.
C5_CargoIndentation ==
    (pc = "parsed" /\ filename = "Cargo.toml" /\ IsPackageThenDependencies(content))
    => /\ Pairs(dependencies) = parse_cargo(StripLines(content))
       /\ content = TEXT_test_parse_cargo_toml =>
             Pairs(dependencies) =
                <<<<<<"s","e","r","d","e">>, <<"1",".","0">>>>,
                  <<<<"t","o","k","i","o">>, <<"1",".","1","7">>>>>>

\* the lines inside a block: after a key line that does not close the block
\* itself, up to the next line holding "}"
RECURSIVE InsideBlock(_, _, _, _)
InsideBlock(lines, keys, i, open) ==
    IF i > Len(lines) THEN {}
    ELSE IF \E k \in keys : Contains(lines[i], k)
    THEN InsideBlock(lines, keys, i + 1, ~HasChar(lines[i], "}"))
    ELSE IF open /\ ~HasChar(lines[i], "}")
    THEN {i} \cup InsideBlock(lines, keys, i + 1, TRUE)
    ELSE InsideBlock(lines, keys, i + 1, FALSE)

\* C6: every pair parse_package_json returns sits on a line inside a
\* "dependencies" or "devDependencies" block; no pair of a line before the
\* key line or after the closing brace is returned, also when the block is
\* empty and closed on its key line.
C6_OnlyBlockPairs ==
    (pc = "parsed" /\ filename = "package.json")
    => \A j \in 1..Len(dependencies) :
          \E i \in InsideBlock(Split(content, NL),
                               {KEY_dependencies, KEY_devDependencies}, 1, FALSE) :
              PackageJsonSearch(Split(content, NL)[i], 1)
                  = <<dependencies[j].package, dependencies[j].version>>

\* C7: the exit status is non-zero only for the usage errors, found before
\* any scanning; a run that passes argument validation ends with status 0
\* whatever errors occur during the scan and the CSV write.
C7_ExitStatus ==
    pc = "exit" =>
        /\ Validated => exit_code = 0
        /\ exit_code # 0 => ~Validated /\ attempts = <<>>

\* C8: every record of scanner.dependencies has a non-empty package,
\* whichever parser produced it and whatever the file's text.
C8_PackageNeverEmpty ==
    \A j \in 1..Len(dependencies) : dependencies[j].package # <<>>

\* a Pipfile was parsed whose [packages] section holds an entry without a
\* name before a named one, and gave a record
C8_Witness ==
    /\ pc = "parsed"
    /\ filename = "Pipfile"
    /\ content = Join(<<SEC_packages,
                        <<" ", "=", " ", QUOTE, "1", ".", "0", QUOTE>>,
                        <<"r","e","q","u","e","s","t","s"," ","="," ",QUOTE,"*",QUOTE>>
                      >>, NL)
    /\ Len(dependencies) = 1

\* C9: when the scan yields no record, write_csv writes no file: no output
\* path is created or modified, "No dependencies found." is printed instead
\* and the exit status is 0.
C9_NoFileWhenEmpty ==
    (pc = "exit" /\ Validated /\ dependencies = <<>>)
    => /\ \/ out_file = [p \in OutputPaths |-> "absent"]
          \/ out_file = [p \in OutputPaths |-> "old"]
       /\ stderr # <<>> /\ stderr[Len(stderr)] = "No dependencies found."
       /\ stdout = <<>>
       /\ exit_code = 0

\* a run ended whose scan read a manifest that gave no record, with a file
\* already present at the output path
C9_Witness ==
    /\ pc = "exit"
    /\ Validated
    /\ dependencies = <<>>
    /\ \E k \in 1..Len(attempts) : ReadOk(attempts[k])
    /\ out_file[output_file] = "old"

\* C10: the result is the concatenation, in file-discovery order (a
\* directory's own files before those of its subdirectories), of each
\* successfully parsed file's parser output: records are only appended,
\* never changed, removed, reordered or deduplicated.
C10_DiscoveryOrder ==
    /\ [][IsPrefix(dependencies, dependencies')]_vars
    /\ [](/\ IsPrefix(Entries(attempts), Discovery(tree, 0))
          /\ dependencies = ExpectedDeps(tree, attempts, Len(attempts)))
    /\ [](pc = "write" => Entries(attempts) = Discovery(tree, 0))

\* scan returned four records of one package: twice from each of two
\* manifests in sibling directories
C10_Witness ==
    /\ pc = "write"
    /\ Len(attempts) = 2
    /\ tree[attempts[1].entry].parent # 0
    /\ tree[attempts[2].entry].parent # 0
    /\ tree[attempts[1].entry].parent # tree[attempts[2].entry].parent
    /\ Len(dependencies) = 4
    /\ dependencies[1] = dependencies[2]
    /\ dependencies[2].package = dependencies[3].package
    /\ dependencies[2].file # dependencies[3].file

====
